---- MODULE Spec2Model ----
(***************************************************************************)
(* Type relations of the vision NMS operators (src/relay/op/vision/nms.cc):*)
(* GetValidCountRel, NMSRel and BatchToIndexRel.                           *)
(*                                                                         *)
(* A type relation is called by the type solver with an array of type      *)
(* slots (the argument types followed by the result type), the attributes  *)
(* of the call and a reporter.  A slot that is not resolved yet is an      *)
(* IncompleteType; types[i].as<TensorTypeNode>() is null for it.           *)
(* Slots are numbered from 0 as in the source; Slot(ts, i) is types[i].    *)
(***************************************************************************)
EXTENDS Integers, Sequences, FiniteSets, TLC

\* ---- bounds of the model ------------------------------------------------
MaxRank == 3
MaxDim == 2
MaxSlots == 4

\* ---- types ----------------------------------------------------------------
DTypes == {"float32", "int32"}

IncompleteType == [kind |-> "Incomplete"]

TensorType(shape, dtype) == [kind |-> "Tensor", shape |-> shape, dtype |-> dtype]

TupleType(fields) == [kind |-> "Tuple", fields |-> fields]

Shapes == UNION {[1..r -> 1..MaxDim] : r \in 0..MaxRank}

TensorTypes == {TensorType(s, d) : s \in Shapes, d \in DTypes}

SlotTypes == TensorTypes \cup {IncompleteType}

\* the slots drawn for a slot no relation reads, and for calls of a wrong arity
SmallTypes == {IncompleteType} \cup {TensorType([i \in 1..r |-> 1], "float32") : r \in 0..MaxRank}

\* values drawn for an index attribute: below 0, the first field, and one
\* that no K of the model contains
IndexVals == {-1, 0, MaxDim}

Slot(ts, i) == ts[i + 1]

\* ---- attributes (built by the Make functions) ----------------------------
MakeGetValidCounts(id_index, score_index) ==
  [kind |-> "GetValidCountsAttrs", id_index |-> id_index, score_index |-> score_index]

MakeNMS(coord_start, score_index, id_index, return_indices) ==
  [kind |-> "NonMaximumSuppressionAttrs", coord_start |-> coord_start,
   score_index |-> score_index, id_index |-> id_index,
   return_indices |-> return_indices]

MakeBatchToIndex == [kind |-> "BatchToIndexAttrs"]

\* ---- outcomes of one call of a relation ----------------------------------
\* true: the relation returned true; fatal: a CHECK failed (dmlc::Error);
\* crash: the process died on a null dereference
ReturnTrue(assigns) == [outcome |-> "true", msg |-> "", assigns |-> assigns]

Fatal(msg) == [outcome |-> "fatal", msg |-> msg, assigns |-> <<>>]

Crash == [outcome |-> "crash", msg |-> "", assigns |-> <<>>]

Assign(slot, type) == [slot |-> slot, type |-> type]

Segv == [kind |-> "Segv"]

\* p = types[i].as<TensorTypeNode>() followed by p->shape: the node itself
\* when the slot is a tensor type; a null pointer otherwise, and reading
\* through it is undefined: the process dies, or the read yields whatever
\* lies there
Deref(t) == IF t.kind = "Tensor" THEN {t} ELSE TensorTypes \cup {Segv}

VARIABLES phase, rel, types, attrs, num_inputs, outcome, msg, assigns, solved, ub

vars == <<phase, rel, types, attrs, num_inputs, outcome, msg, assigns, solved, ub>>

Init ==
  /\ phase = "idle"
  /\ rel = "none"
  /\ types = <<>>
  /\ attrs = [kind |-> "none"]
  /\ num_inputs = 0
  /\ outcome = "none"
  /\ msg = ""
  /\ assigns = <<>>
  /\ solved = <<>>
  /\ ub = FALSE

\* the slot arrays a relation of arity n is called with
TypeArrays(n, good) ==
  UNION {IF k = n THEN good ELSE [1..k -> SmallTypes] : k \in 1..MaxSlots}

Invoke(r, ts, a) ==
  /\ phase' = "called"
  /\ rel' = r
  /\ types' = ts
  /\ attrs' = a
  /\ num_inputs' = Len(ts) - 1
  /\ outcome' = "none"
  /\ msg' = ""
  /\ assigns' = <<>>
  /\ solved' = ts
  /\ ub' = FALSE

InvokeGetValidCount ==
  /\ phase = "idle"
  /\ \E ts \in TypeArrays(2, {<<d, IncompleteType>> : d \in SlotTypes}),
        id_index \in IndexVals, score_index \in IndexVals :
       Invoke("GetValidCount", ts, MakeGetValidCounts(id_index, score_index))

InvokeNMS ==
  /\ phase = "idle"
  /\ \E ts \in TypeArrays(4, {<<d, v, i, IncompleteType>> :
                               d \in SlotTypes, v \in SlotTypes,
                               i \in {IncompleteType, TensorType(<<1, 1>>, "int32")}}),
        coord_start \in {0, MaxDim}, score_index \in IndexVals,
        id_index \in {-1, MaxDim}, return_indices \in BOOLEAN :
       Invoke("NMS", ts, MakeNMS(coord_start, score_index, id_index, return_indices))

InvokeBatchToIndex ==
  /\ phase = "idle"
  /\ \E ts \in TypeArrays(3, {<<b, c, IncompleteType>> : b \in SlotTypes, c \in SlotTypes}) :
       Invoke("BatchToIndex", ts, MakeBatchToIndex)

\* reporter->Assign for every entry of a result, in order
RECURSIVE ApplyAssigns(_, _)
ApplyAssigns(sv, as) ==
  IF as = <<>> THEN sv
  ELSE ApplyAssigns([sv EXCEPT ![Head(as).slot + 1] = Head(as).type], Tail(as))

Finish(res, undefined) ==
  /\ phase' = "done"
  /\ outcome' = res.outcome
  /\ msg' = res.msg
  /\ assigns' = res.assigns
  /\ solved' = ApplyAssigns(solved, res.assigns)
  /\ ub' = undefined
  /\ UNCHANGED <<rel, types, attrs, num_inputs>>

\* ---- GetValidCountRel ----------------------------------------------------
\* GetValidCountRel with the count and the indices fields pushed in swapped order
GetValidCountBody_swapped(data) ==
  IF Len(data.shape) # 3 THEN Fatal("Input data should be 3-D.")
  ELSE LET oshape == <<data.shape[1]>>
           oshape_indices == <<data.shape[1], data.shape[2]>>
           fields == <<TensorType(oshape_indices, "int32"),
                       TensorType(data.shape, data.dtype),
                       TensorType(oshape, "int32")>>
       IN ReturnTrue(<<Assign(1, TupleType(fields))>>)

GetValidCountBody(data) ==
  IF Len(data.shape) # 3 THEN Fatal("Input data should be 3-D.")
  ELSE LET oshape == <<data.shape[1]>>
           oshape_indices == <<data.shape[1], data.shape[2]>>
           fields == <<TensorType(oshape, "int32"),
                       TensorType(data.shape, data.dtype),
                       TensorType(oshape_indices, "int32")>>
       IN ReturnTrue(<<Assign(1, TupleType(fields))>>)

GetValidCountRel ==
  /\ phase = "called"
  /\ rel = "GetValidCount"
  /\ IF Len(types) # 2 THEN Finish(Fatal("Check failed: types.size() == 2"), FALSE)
     ELSE \E data \in Deref(Slot(types, 0)) :
            LET undefined == Slot(types, 0).kind # "Tensor"
            IN IF data = Segv THEN Finish(Crash, undefined)
               ELSE Finish(GetValidCountBody(data), undefined)

\* ---- NMSRel --------------------------------------------------------------
\* NMSRel with countshape built as {dshape[0], dshape[1]}
NMSBody_countshape(data, valid_count, param) ==
  LET dshape == data.shape
      vshape == valid_count.shape
  IN IF Len(dshape) # 3 THEN Fatal("Input data should be 3-D.")
     ELSE IF Len(vshape) # 1 THEN Fatal("Input valid count should be 1-D.")
     ELSE IF param.return_indices
          THEN LET oshape == <<dshape[1], dshape[2]>>
                   countshape == <<dshape[1], dshape[2]>>
                   fields == <<TensorType(oshape, "int32"),
                               TensorType(countshape, "int32")>>
               IN ReturnTrue(<<Assign(3, TupleType(fields))>>)
          ELSE ReturnTrue(<<Assign(3, TensorType(dshape, data.dtype))>>)

\* NMSRel without the rank check of valid_count
NMSBody_norankcheck(data, valid_count, param) ==
  LET dshape == data.shape
  IN IF Len(dshape) # 3 THEN Fatal("Input data should be 3-D.")
     ELSE IF param.return_indices
          THEN LET oshape == <<dshape[1], dshape[2]>>
                   countshape == <<dshape[1], 1>>
                   fields == <<TensorType(oshape, "int32"),
                               TensorType(countshape, "int32")>>
               IN ReturnTrue(<<Assign(3, TupleType(fields))>>)
          ELSE ReturnTrue(<<Assign(3, TensorType(dshape, data.dtype))>>)

\* NMSRel assigning the index pair to types[2], the indices argument
NMSBody_wrongslot(data, valid_count, param) ==
  LET dshape == data.shape
      vshape == valid_count.shape
  IN IF Len(dshape) # 3 THEN Fatal("Input data should be 3-D.")
     ELSE IF Len(vshape) # 1 THEN Fatal("Input valid count should be 1-D.")
     ELSE IF param.return_indices
          THEN LET oshape == <<dshape[1], dshape[2]>>
                   countshape == <<dshape[1], 1>>
                   fields == <<TensorType(oshape, "int32"),
                               TensorType(countshape, "int32")>>
               IN ReturnTrue(<<Assign(2, TupleType(fields))>>)
          ELSE ReturnTrue(<<Assign(3, TensorType(dshape, data.dtype))>>)

NMSBody(data, valid_count, param) ==
  LET dshape == data.shape
      vshape == valid_count.shape
  IN IF Len(dshape) # 3 THEN Fatal("Input data should be 3-D.")
     ELSE IF Len(vshape) # 1 THEN Fatal("Input valid count should be 1-D.")
     ELSE IF param.return_indices
          THEN LET oshape == <<dshape[1], dshape[2]>>
                   countshape == <<dshape[1], 1>>
                   fields == <<TensorType(oshape, "int32"),
                               TensorType(countshape, "int32")>>
               IN ReturnTrue(<<Assign(3, TupleType(fields))>>)
          ELSE ReturnTrue(<<Assign(3, TensorType(dshape, data.dtype))>>)

NMSRel ==
  /\ phase = "called"
  /\ rel = "NMS"
  /\ IF Len(types) # 4 THEN Finish(Fatal("Check failed: types.size() == 4"), FALSE)
     ELSE \E data \in Deref(Slot(types, 0)), valid_count \in Deref(Slot(types, 1)) :
            LET undefined == Slot(types, 0).kind # "Tensor" \/ Slot(types, 1).kind # "Tensor"
            IN IF data = Segv \/ valid_count = Segv THEN Finish(Crash, undefined)
               ELSE Finish(NMSBody(data, valid_count, attrs), undefined)

\* ---- BatchToIndexRel -----------------------------------------------------
\* BatchToIndexRel taking the result dtype from class_ids
BatchToIndexBody_classdtype(box_indices, class_ids) ==
  LET bshape == box_indices.shape
      cshape == class_ids.shape
  IN IF Len(bshape) # 2 THEN Fatal("Box indices should be 2-D.")
     ELSE IF Len(cshape) # 2 THEN Fatal("Class IDs should be 2-D.")
     ELSE LET oshape == <<bshape[1] * bshape[2], 3>>
          IN ReturnTrue(<<Assign(2, TensorType(oshape, class_ids.dtype))>>)

BatchToIndexBody(box_indices, class_ids) ==
  LET bshape == box_indices.shape
      cshape == class_ids.shape
  IN IF Len(bshape) # 2 THEN Fatal("Box indices should be 2-D.")
     ELSE IF Len(cshape) # 2 THEN Fatal("Class IDs should be 2-D.")
     ELSE LET oshape == <<bshape[1] * bshape[2], 3>>
          IN ReturnTrue(<<Assign(2, TensorType(oshape, box_indices.dtype))>>)

BatchToIndexRel ==
  /\ phase = "called"
  /\ rel = "BatchToIndex"
  /\ IF Len(types) # 3 THEN Finish(Fatal("Check failed: types.size() == 3"), FALSE)
     ELSE \E box_indices \in Deref(Slot(types, 0)), class_ids \in Deref(Slot(types, 1)) :
            LET undefined == Slot(types, 0).kind # "Tensor" \/ Slot(types, 1).kind # "Tensor"
            IN IF box_indices = Segv \/ class_ids = Segv THEN Finish(Crash, undefined)
               ELSE Finish(BatchToIndexBody(box_indices, class_ids), undefined)

Next ==
  \/ InvokeGetValidCount
  \/ InvokeNMS
  \/ InvokeBatchToIndex
  \/ GetValidCountRel
  \/ NMSRel
  \/ BatchToIndexRel

Spec == Init /\ [][Next]_vars

TypeOK ==
  /\ phase \in {"idle", "called", "done"}
  /\ rel \in {"none", "GetValidCount", "NMS", "BatchToIndex"}
  /\ outcome \in {"none", "true", "fatal", "crash"}
  /\ ub \in BOOLEAN
  /\ Len(solved) = Len(types)
\* ---- the cases the properties are about -----------------------------------
Arity(r) == CASE r = "GetValidCount" -> 2 [] r = "NMS" -> 4 [] r = "BatchToIndex" -> 3 [] OTHER -> 0

\* the slots a relation casts to a tensor type (0-based)
CastSlots(r) == IF r = "GetValidCount" THEN {0} ELSE {0, 1}

\* the rank a relation requires of a cast slot
WantRank(r, i) ==
  CASE r = "GetValidCount" -> 3
    [] r = "NMS" -> IF i = 0 THEN 3 ELSE 1
    [] OTHER -> 2

Done(r) == phase = "done" /\ rel = r /\ Len(types) = Arity(r)

IsTensor(i) == Slot(types, i).kind = "Tensor"

Rank(i) == Len(Slot(types, i).shape)

AllTensors == \A i \in CastSlots(rel) : IsTensor(i)

RanksOK == \A i \in CastSlots(rel) : IsTensor(i) /\ Rank(i) = WantRank(rel, i)

Int32Tensor(shape) == [kind |-> "Tensor", shape |-> shape, dtype |-> "int32"]

\* C1: NMSRel, for data [B,N,K] of dtype T and a 1-D valid_count, assigns
\* the tensor [B,N,K] of dtype T when return_indices is false, and the pair
\* ([B,N] int32, [B,1] int32) when it is true.
C1_NMSOutputType ==
  (Done("NMS") /\ RanksOK) =>
    LET d == Slot(types, 0).shape
        T == Slot(types, 0).dtype
    IN /\ outcome = "true"
       /\ Slot(solved, 3) =
            IF attrs.return_indices
            THEN [kind |-> "Tuple",
                  fields |-> <<Int32Tensor(<<d[1], d[2]>>), Int32Tensor(<<d[1], 1>>)>>]
            ELSE [kind |-> "Tensor", shape |-> <<d[1], d[2], d[3]>>, dtype |-> T]

C1_Witness ==
  /\ Done("NMS") /\ RanksOK /\ attrs.return_indices /\ outcome = "true"
  /\ Slot(types, 0).shape = <<2, 2, 1>>
  /\ Slot(solved, 3).kind = "Tuple"

\* C2: GetValidCountRel, for data [B,N,K] of dtype T, assigns the triple
\* (count [B] int32, data [B,N,K] T, indices [B,N] int32), in this order.
C2_GetValidCountOutputType ==
  (Done("GetValidCount") /\ RanksOK) =>
    LET d == Slot(types, 0).shape
        T == Slot(types, 0).dtype
    IN /\ outcome = "true"
       /\ Slot(solved, 1) =
            [kind |-> "Tuple",
             fields |-> <<Int32Tensor(<<d[1]>>),
                          [kind |-> "Tensor", shape |-> <<d[1], d[2], d[3]>>, dtype |-> T],
                          Int32Tensor(<<d[1], d[2]>>)>>]

C2_Witness ==
  /\ Done("GetValidCount") /\ RanksOK /\ outcome = "true"
  /\ Slot(types, 0) = [kind |-> "Tensor", shape |-> <<2, 1, 2>>, dtype |-> "float32"]
  /\ Slot(solved, 1).kind = "Tuple"

\* C3: BatchToIndexRel, for box_indices [B,N] and a 2-D class_ids, assigns
\* the tensor [B*N, 3] with the dtype of box_indices, not of class_ids.
C3_BatchToIndexOutputType ==
  (Done("BatchToIndex") /\ RanksOK) =>
    LET b == Slot(types, 0).shape
    IN /\ outcome = "true"
       /\ Slot(solved, 2) =
            [kind |-> "Tensor", shape |-> <<b[1] * b[2], 3>>,
             dtype |-> Slot(types, 0).dtype]

C3_Witness ==
  /\ Done("BatchToIndex") /\ RanksOK /\ outcome = "true"
  /\ Slot(types, 0).shape = <<2, 2>>
  /\ Slot(types, 0).dtype # Slot(types, 1).dtype
  /\ Slot(solved, 2).shape = <<4, 3>>

\* C4: a tensor input of the wrong rank makes the call fail with nothing
\* assigned: data rank # 3 for get_valid_counts and NMS, valid_count rank # 1
\* for NMS, box_indices or class_ids rank # 2 for batch_to_index.  When
\* every cast input is a tensor type the failure is the fatal check.
C4_RankErrorFatal ==
  (/\ phase = "done" /\ Len(types) = Arity(rel)
   /\ \E i \in CastSlots(rel) : IsTensor(i) /\ Rank(i) # WantRank(rel, i)) =>
    /\ outcome # "true"
    /\ assigns = <<>>
    /\ solved = types
    /\ AllTensors => outcome = "fatal"

C4_Witness ==
  /\ Done("NMS") /\ AllTensors
  /\ Rank(0) = 3 /\ Rank(1) = 2
  /\ outcome = "fatal" /\ msg = "Input valid count should be 1-D."
  /\ Slot(solved, 3) = IncompleteType

\* C5: NMS with data [B,N,K] and valid_count [B'], B' # B, fails as a fatal
\* error and assigns no output type.
C5_BatchMismatchRejected ==
  (/\ Done("NMS") /\ RanksOK
   /\ Slot(types, 0).shape[1] # Slot(types, 1).shape[1]) =>
    outcome = "fatal" /\ assigns = <<>>

\* C6: batch_to_index with 2-D box_indices and class_ids whose shapes
\* differ in a dimension fails as a fatal shape error and assigns nothing.
C6_UnequalShapesRejected ==
  (/\ Done("BatchToIndex") /\ RanksOK
   /\ Slot(types, 0).shape # Slot(types, 1).shape) =>
    outcome = "fatal" /\ assigns = <<>>

\* an offset into the K fields of a box that lies outside [0, K)
OutOfBounds(i, K) == i < 0 \/ i >= K

\* C7: for data [B,N,K], get_valid_counts with score_index outside [0,K),
\* and NMS with score_index, id_index (-1 disables it) or coord_start out of
\* bounds for K, fail as a fatal error before any output is assigned.
C7_OffsetsRejected ==
  LET K == Slot(types, 0).shape[3]
  IN /\ (/\ Done("GetValidCount") /\ RanksOK
         /\ OutOfBounds(attrs.score_index, K)) =>
           outcome = "fatal" /\ assigns = <<>>
     /\ (/\ Done("NMS") /\ RanksOK
         /\ \/ OutOfBounds(attrs.score_index, K)
            \/ (attrs.id_index # -1 /\ OutOfBounds(attrs.id_index, K))
            \/ OutOfBounds(attrs.coord_start, K)) =>
           outcome = "fatal" /\ assigns = <<>>

\* C9: when a slot a relation casts to a tensor type is not a tensor type,
\* the relation does not read through the null pointer and assigns no
\* output type.
C9_NullInputNotDereferenced ==
  (phase = "done" /\ Len(types) = Arity(rel) /\ ~AllTensors) =>
    ~ub /\ outcome \notin {"crash", "fatal"} /\ assigns = <<>>

\* C10: a call that passes its checks returns true; a call that returns
\* true made exactly one assignment, to the last slot, and left every input
\* slot as it was (NMS's indices slot included); a call with another number
\* of slots fails with nothing assigned.
C10_OneAssignmentToLastSlot ==
  phase = "done" =>
    /\ (Len(types) = Arity(rel) /\ RanksOK) => outcome = "true"
    /\ outcome = "true" =>
         /\ Len(types) = Arity(rel)
         /\ Len(assigns) = 1
         /\ assigns[1].slot = Len(types) - 1
         /\ Slot(solved, Len(types) - 1) = assigns[1].type
         /\ \A i \in 0..(Len(types) - 2) : Slot(solved, i) = Slot(types, i)
    /\ Len(types) # Arity(rel) =>
         outcome = "fatal" /\ assigns = <<>> /\ solved = types

C10_Witness ==
  /\ Done("NMS") /\ RanksOK /\ attrs.return_indices
  /\ outcome = "true" /\ Len(assigns) = 1 /\ assigns[1].slot = 3
  /\ Slot(solved, 2) = IncompleteType
  /\ Slot(solved, 3) # IncompleteType
====
